---- MODULE Spec2Model ----
(***************************************************************************)
(* Overlay stack of packages/overlay/src/vaadin-overlay.js: the overlays   *)
(* attached to <body>, their stacking order (__zIndex), the modal state    *)
(* (pointer-events of <body> and of the overlay parts) and the routing of  *)
(* document clicks and Escape key presses to the topmost overlay, and the   *)
(* restoration of the focus when an overlay closes.                        *)
(***************************************************************************)
EXTENDS Integers, Sequences, FiniteSets, TLC

\* The overlay instances of the page.
Overlays == {"a", "b", "c"}

\* z-index of :host in the overlay's style sheet (getComputedStyle(this).zIndex).
DefaultZIndex == 200

\* Largest stacking order the model lets bringToFront() assign.
MaxZIndex == 202

\* An event target outside every overlay part (backdrop, document).
Outside == "outside"

\* No overlay (Array.prototype.pop() of an empty array).
None == "none"

\* A property that is not set (undefined in the source).
Undefined == "undefined"

\* What the listeners of the host do with the notifications of one overlay:
\* cancel the dismissal notification (outside-click, escape-press), cancel
\* vaadin-overlay-close, or cancel nothing, _shouldAnimate() then being true
\* ("animate") or false ("finish").
Responses == {"preventDefault", "preventClose", "animate", "finish"}

\* The notifications of an overlay a listener of the host can react to.
NotificationTypes ==
    {"vaadin-overlay-close", "opened-changed", "vaadin-overlay-closing",
     "vaadin-overlay-outside-click", "vaadin-overlay-escape-press"}

\* KeyboardEvent.key: Escape and one other key.
Keys == {"Escape", "Enter"}

\* The host of an overlay that is the overlay of a <vaadin-confirm-dialog>.
ConfirmDialog == "vaadin-confirm-dialog"

\* document.body as the active element: nothing has the focus.
Body == "body"

\* document.body.style.pointerEvents as the page sets it.
PagePointerEvents == "auto"

\* A focusable element of the page outside every overlay.
PageElements == {"X"}

\* The elements that can be the deep active element of the document: body, an
\* element of the page, or an element inside overlay o, written o.
Elements == {Body} \cup PageElements \cup Overlays

\* Largest number of pending setTimeout callbacks the model keeps.
MaxTimers == 1

\* Largest number of pending afterNextRender callbacks the model keeps.
MaxRenders == 2

VARIABLES
    opened,            \* o.opened
    modeless,          \* o.modeless
    bodyChildren,      \* the overlays among document.body.children, in DOM order
    opening,           \* o.hasAttribute('opening')
    closing,           \* o.hasAttribute('closing')
    openingHandler,    \* typeof o.__openingHandler === 'function'
    closingHandler,    \* typeof o.__closingHandler === 'function'
    placeholder,       \* parent of the node o._placeholder: "home", "body", or
                       \* Undefined when the node is not in the document
    zIndex,            \* o.__zIndex (0: not assigned)
    partPointerEvents, \* o.$.overlay.style.pointerEvents
    bodyPointerEvents, \* document.body.style.pointerEvents
    previousDocumentPointerEvents, \* o._previousDocumentPointerEvents
    keydownListeners,  \* overlays whose keydown listener is on document, in order
    clickListeners,    \* overlays whose mousedown, mouseup and click listeners
                       \* are registered, in order of registration
    mouseDownInside,   \* o._mouseDownInside
    mouseUpInside,     \* o._mouseUpInside
    activeElement,     \* the deep active element, as _getActiveElement() returns it
    restoreFocusOnClose, \* o.restoreFocusOnClose
    restoreFocusNode,  \* o.restoreFocusNode, or Undefined
    storedFocusNode,   \* o.__restoreFocusNode, or Undefined (undefined or null)
    timers,            \* the elements the pending setTimeout callbacks will focus
    orphans,           \* number of placeholder nodes of o in the document that
                       \* o._placeholder does not refer to any more
    host,              \* ConfirmDialog if o is the overlay of a confirm dialog,
                       \* whose opened property is bound to o.opened; or None
    focusTrap,         \* o.focusTrap
    trapNode,          \* the focus trap controller of o holds an active trap
    afterRenderQueue,  \* the overlays whose afterNextRender callback of
                       \* _openedChanged is pending, in order
    \* scripts/cherryPick.js
    pc,                \* where the script is
    closedPulls,       \* the closed pull requests the GitHub API returns
    commits,           \* the result of getAllCommits()
    arrays,            \* arrPR, arrSHA, arrURL, arrBranch, arrTitle, arrUser
    index,             \* i of the loop of cherryPickCommits()
    git,               \* the local repository: the branch checked out, the
                       \* temporary branches, a cherry-pick in progress
    log,               \* what the last iteration of cherryPickCommits() did,
                       \* in order
    \* component-base/src/slot-controller.js
    multiple,          \* this.multiple
    tagName,           \* this.tagName, or Undefined
    observe,           \* this.observe
    childNodes,        \* the child nodes of the host that match the slot, in order
    thisNode,          \* this.node, or Undefined
    nodes,             \* this.nodes
    defaultNode,       \* this.defaultNode, or Undefined
    initialized,       \* this.initialized
    slotObserver,      \* this.__slotObserver is set
    observedNodes,     \* the nodes of the slot as the observer reported them last
    initializerCalls   \* how often this.slotInitializer was called with each node

\* The state of the page with the overlays.
pageVars == <<opened, modeless, bodyChildren, opening, closing, openingHandler,
              closingHandler, placeholder, zIndex, partPointerEvents,
              bodyPointerEvents, previousDocumentPointerEvents, keydownListeners,
              clickListeners, mouseDownInside, mouseUpInside, activeElement,
              restoreFocusOnClose, restoreFocusNode, storedFocusNode, timers,
              orphans, host, focusTrap, trapNode, afterRenderQueue>>

\* The state of the cherry-pick script.
scriptVars == <<pc, closedPulls, commits, arrays, index, git, log>>

\* The state of the slot controller and of the slot of its host.
slotVars == <<multiple, tagName, observe, childNodes, thisNode, nodes, defaultNode,
              initialized, slotObserver, observedNodes, initializerCalls>>

vars == <<pageVars, scriptVars, slotVars>>

\* The program state as one record, threaded through the handlers below;
\* fired and vetoed collect the notifications a handler dispatches and the
\* ones a listener cancels, cancels counts the 'cancel' events of the confirm
\* dialogs.
State ==
    [opened |-> opened, modeless |-> modeless, bodyChildren |-> bodyChildren,
     opening |-> opening, closing |-> closing, openingHandler |-> openingHandler,
     closingHandler |-> closingHandler, placeholder |-> placeholder,
     zIndex |-> zIndex, partPointerEvents |-> partPointerEvents,
     bodyPointerEvents |-> bodyPointerEvents,
     previousDocumentPointerEvents |-> previousDocumentPointerEvents,
     keydownListeners |-> keydownListeners, clickListeners |-> clickListeners,
     mouseDownInside |-> mouseDownInside, mouseUpInside |-> mouseUpInside,
     activeElement |-> activeElement, restoreFocusOnClose |-> restoreFocusOnClose,
     restoreFocusNode |-> restoreFocusNode, storedFocusNode |-> storedFocusNode,
     timers |-> timers, orphans |-> orphans, host |-> host,
     focusTrap |-> focusTrap, trapNode |-> trapNode,
     afterRenderQueue |-> afterRenderQueue,
     fired |-> {}, vetoed |-> {}, cancels |-> 0]

Range(seq) == {seq[i] : i \in 1..Len(seq)}

Without(seq, o) == SelectSeq(seq, LAMBDA x : x # o)

\* EventTarget.addEventListener: registering the same listener twice is a no-op.
addEventListener(seq, o) == IF o \in Range(seq) THEN seq ELSE Append(seq, o)

\* EventTarget.removeEventListener
removeEventListener(seq, o) == Without(seq, o)

\* Array.prototype.pop() as a value: the last element, or None.
Pop(seq) == IF Len(seq) = 0 THEN None ELSE seq[Len(seq)]

\* Array.prototype.sort with (a, b) => a.__zIndex - b.__zIndex || 0: stable.
RECURSIVE SortByZIndex(_, _)
SortByZIndex(s, seq) ==
    IF Len(seq) = 0 THEN <<>>
    ELSE LET x == seq[Len(seq)]
             init == SortByZIndex(s, SubSeq(seq, 1, Len(seq) - 1))
             before == SelectSeq(init, LAMBDA y : s.zIndex[y] <= s.zIndex[x])
             after == SelectSeq(init, LAMBDA y : s.zIndex[y] > s.zIndex[x])
         IN  before \o <<x>> \o after

\* Mutant: the closing overlays are not filtered out.
attachedInstancesWithClosing(s) == SortByZIndex(s, s.bodyChildren)

\* static get __attachedInstances
attachedInstances(s) ==
    SortByZIndex(s, SelectSeq(s.bodyChildren, LAMBDA el : ~s.closing[el]))

\* get _last
isLast(s, o) == o = Pop(attachedInstances(s))

\* Mutant: the stacking order of the frontmost overlay is taken, not the next one.
bringToFrontSameIndex(s, o) ==
    LET frontmost == Pop(Without(attachedInstances(s), o))
        z == IF frontmost # None THEN s.zIndex[frontmost] ELSE DefaultZIndex
    IN  [s EXCEPT !.zIndex[o] = z]

\* Mutant: the overlay itself is not left out when the frontmost one is taken.
bringToFrontCountingSelf(s, o) ==
    LET frontmost == Pop(attachedInstances(s))
        z == IF frontmost # None THEN s.zIndex[frontmost] + 1 ELSE DefaultZIndex
    IN  [s EXCEPT !.zIndex[o] = z]

\* bringToFront()
bringToFront(s, o) ==
    LET frontmost == Pop(Without(attachedInstances(s), o))
        z == IF frontmost # None THEN s.zIndex[frontmost] + 1 ELSE DefaultZIndex
    IN  [s EXCEPT !.zIndex[o] = z]

\* Mutant: the other overlays of the stack are left interactive.
enterModalStateBodyOnly(s, o) ==
    IF s.bodyPointerEvents # "none"
    THEN [s EXCEPT !.previousDocumentPointerEvents[o] = s.bodyPointerEvents,
                   !.bodyPointerEvents = "none"]
    ELSE s

\* Mutant: the value of body is recorded also when body is disabled already.
enterModalStateAlwaysRecords(s, o) ==
    LET s1 == [s EXCEPT !.previousDocumentPointerEvents[o] = s.bodyPointerEvents,
                        !.bodyPointerEvents = "none"]
        others == Range(attachedInstances(s1)) \ {o}
    IN  [s1 EXCEPT !.partPointerEvents =
            [el \in Overlays |-> IF el \in others THEN "none" ELSE @[el]]]

\* _enterModalState()
enterModalState(s, o) ==
    LET s1 == IF s.bodyPointerEvents # "none"
              THEN [s EXCEPT !.previousDocumentPointerEvents[o] = s.bodyPointerEvents,
                             !.bodyPointerEvents = "none"]
              ELSE s
        others == Range(attachedInstances(s1)) \ {o}
    IN  [s1 EXCEPT !.partPointerEvents =
            [el \in Overlays |-> IF el \in others THEN "none" ELSE @[el]]]

\* The overlays the loop of _exitModalState() re-enables: from the top of the
\* stack, skipping this one, down to and including the first one not modeless.
RECURSIVE RestoredInstances(_, _, _)
RestoredInstances(s, o, instances) ==
    IF Len(instances) = 0 THEN {}
    ELSE LET el == instances[Len(instances)]
             rest == SubSeq(instances, 1, Len(instances) - 1)
         IN  IF el = o THEN RestoredInstances(s, o, rest)
             ELSE IF ~s.modeless[el] THEN {el}
             ELSE {el} \cup RestoredInstances(s, o, rest)

\* Mutant: pointer-events of body are not restored.
exitModalStateKeepBody(s, o) ==
    LET s1 == IF s.previousDocumentPointerEvents[o] # Undefined
              THEN [s EXCEPT !.previousDocumentPointerEvents[o] = Undefined]
              ELSE s
        restored == RestoredInstances(s1, o, attachedInstances(s1))
    IN  [s1 EXCEPT !.partPointerEvents =
            [el \in Overlays |-> IF el \in restored THEN "" ELSE @[el]]]

\* _exitModalState()
exitModalState(s, o) ==
    LET s1 == IF s.previousDocumentPointerEvents[o] # Undefined
              THEN [s EXCEPT !.bodyPointerEvents = s.previousDocumentPointerEvents[o],
                             !.previousDocumentPointerEvents[o] = Undefined]
              ELSE s
        restored == RestoredInstances(s1, o, attachedInstances(s1))
    IN  [s1 EXCEPT !.partPointerEvents =
            [el \in Overlays |-> IF el \in restored THEN "" ELSE @[el]]]

\* _addGlobalListeners()
addGlobalListeners(s, o) ==
    [s EXCEPT !.clickListeners = addEventListener(@, o)]

\* _removeGlobalListeners()
removeGlobalListeners(s, o) ==
    [s EXCEPT !.clickListeners = removeEventListener(@, o)]

\* Mutant: the overlay goes back to its place and the placeholder stays.
detachOverlayKeepsPlaceholder(s, o) ==
    LET s1 == IF s.activeElement = o THEN [s EXCEPT !.activeElement = Body] ELSE s
    IN  IF s1.placeholder[o] = "body"
        THEN s1
        ELSE [s1 EXCEPT !.bodyChildren = Without(@, o)]

\* _detachOverlay(): back before the placeholder, which is then removed.
\* An element that is moved in the document loses the focus to body.
detachOverlay(s, o) ==
    LET s1 == IF s.activeElement = o THEN [s EXCEPT !.activeElement = Body] ELSE s
    IN  IF s1.placeholder[o] = "body"
        THEN [s1 EXCEPT !.placeholder[o] = Undefined]
        ELSE [s1 EXCEPT !.bodyChildren = Without(@, o), !.placeholder[o] = Undefined]

\* _finishClosing()
finishClosing(s, o) ==
    LET s1 == detachOverlay(s, o)
    IN  [s1 EXCEPT !.partPointerEvents[o] = "", !.closing[o] = FALSE]

\* _finishOpening()
finishOpening(s, o) == [s EXCEPT !.opening[o] = FALSE]

\* _flushAnimation(type), and the animationend listener of _enqueueAnimation
flushAnimation(s, o, type) ==
    IF type = "opening"
    THEN IF s.openingHandler[o]
         THEN [finishOpening(s, o) EXCEPT !.openingHandler[o] = FALSE]
         ELSE s
    ELSE IF s.closingHandler[o]
         THEN [finishClosing(s, o) EXCEPT !.closingHandler[o] = FALSE]
         ELSE s

\* _attachOverlay(): a placeholder that this._placeholder still refers to is
\* left in the document when the new one is created.
attachOverlay(s, o) ==
    LET s1 == [s EXCEPT !.orphans[o] =
                           IF s.placeholder[o] # Undefined THEN @ + 1 ELSE @,
                        !.placeholder[o] =
                           IF o \in Range(s.bodyChildren) THEN "body" ELSE "home",
                        !.bodyChildren = Append(Without(@, o), o)]
    IN  bringToFront(s1, o)

\* Mutant: the modal state is entered whether or not the overlay is modeless.
animatedOpeningAlwaysModal(s, o, shouldAnimate) ==
    LET s1 == IF o \in Range(s.bodyChildren) /\ s.closing[o]
              THEN flushAnimation(s, o, "closing") ELSE s
        s2 == attachOverlay(s1, o)
        s3 == enterModalState(s2, o)
        s4 == [s3 EXCEPT !.opening[o] = TRUE]
    IN  IF shouldAnimate THEN [s4 EXCEPT !.openingHandler[o] = TRUE]
        ELSE finishOpening(s4, o)

\* Mutant: a pending exit animation is not flushed before attaching again.
animatedOpeningNoFlush(s, o, shouldAnimate) ==
    LET s2 == attachOverlay(s, o)
        s3 == IF ~s2.modeless[o] THEN enterModalState(s2, o) ELSE s2
        s4 == [s3 EXCEPT !.opening[o] = TRUE]
    IN  IF shouldAnimate THEN [s4 EXCEPT !.openingHandler[o] = TRUE]
        ELSE finishOpening(s4, o)

\* _animatedOpening(); shouldAnimate is the result of _shouldAnimate()
animatedOpening(s, o, shouldAnimate) ==
    LET s1 == IF o \in Range(s.bodyChildren) /\ s.closing[o]
              THEN flushAnimation(s, o, "closing") ELSE s
        s2 == attachOverlay(s1, o)
        s3 == IF ~s2.modeless[o] THEN enterModalState(s2, o) ELSE s2
        s4 == [s3 EXCEPT !.opening[o] = TRUE]
    IN  IF shouldAnimate THEN [s4 EXCEPT !.openingHandler[o] = TRUE]
        ELSE finishOpening(s4, o)

\* Mutant: the focus is restored wherever the active element is.
restoreFocusAlways(s, o) ==
    LET node == IF s.restoreFocusNode[o] # Undefined
                THEN s.restoreFocusNode[o] ELSE s.storedFocusNode[o]
    IN  IF s.restoreFocusOnClose[o] /\ node # Undefined
        THEN [s EXCEPT !.timers = Append(@, node),
                       !.storedFocusNode[o] = Undefined]
        ELSE s

\* The focus restoration of _animatedClosing(): setTimeout(() =>
\* restoreFocusNode.focus()) if the active element is body or inside the overlay.
restoreFocus(s, o) ==
    LET node == IF s.restoreFocusNode[o] # Undefined
                THEN s.restoreFocusNode[o] ELSE s.storedFocusNode[o]
    IN  IF s.restoreFocusOnClose[o] /\ node # Undefined
        THEN [s EXCEPT !.timers = IF s.activeElement \in {Body, o}
                                  THEN Append(@, node) ELSE @,
                       !.storedFocusNode[o] = Undefined]
        ELSE s

\* _animatedClosing(); shouldAnimate is the result of _shouldAnimate().  It
\* runs only for an overlay that was opened, so that this._placeholder is set.
animatedClosing(s, o, shouldAnimate) ==
    LET s1 == IF s.opening[o] THEN flushAnimation(s, o, "opening") ELSE s
        s2 == restoreFocus(exitModalState(s1, o), o)
        s3 == [s2 EXCEPT !.closing[o] = TRUE]
    IN  IF shouldAnimate THEN [s3 EXCEPT !.closingHandler[o] = TRUE]
        ELSE finishClosing(s3, o)

\* FocusTrapController.trapFocus(trapNode): the trap is installed.
trapFocus(s, o) == [s EXCEPT !.trapNode[o] = TRUE]

\* FocusTrapController.releaseFocus(): the trap is released.
releaseFocus(s, o) == [s EXCEPT !.trapNode[o] = FALSE]

\* The beginning of the closing branch of _openedChanged().
closingFocusTrap(s, o) == IF s.focusTrap[o] THEN releaseFocus(s, o) ELSE s

\* _openedChanged(opened, wasOpened), run by the setter of `opened` on a change
openedChanged(s, o, shouldAnimate) ==
    IF s.opened[o]
    THEN LET s0 == [s EXCEPT !.storedFocusNode[o] = s.activeElement]
             s1 == [animatedOpening(s0, o, shouldAnimate)
                        EXCEPT !.afterRenderQueue = Append(@, o),
                               !.keydownListeners = addEventListener(@, o)]
         IN  IF ~s1.modeless[o] THEN addGlobalListeners(s1, o) ELSE s1
    ELSE LET s1 == animatedClosing(closingFocusTrap(s, o), o, shouldAnimate)
             s2 == [s1 EXCEPT !.keydownListeners = removeEventListener(@, o)]
         IN  IF ~s2.modeless[o] THEN removeGlobalListeners(s2, o) ELSE s2

\* this.opened = value
setOpened(s, o, value, shouldAnimate) ==
    IF s.opened[o] = value THEN s
    ELSE openedChanged([s EXCEPT !.opened[o] = value], o, shouldAnimate)

\* _modelessChanged(modeless), run by the setter of `modeless` on a change
modelessChanged(s, o) ==
    IF ~s.modeless[o]
    THEN IF s.opened[o] THEN enterModalState(addGlobalListeners(s, o), o) ELSE s
    ELSE exitModalState(removeGlobalListeners(s, o), o)

\* dispatchEvent(new CustomEvent(type, {cancelable: true})) on overlay o
dispatchEvent(s, o, type, defaultPrevented) ==
    [s EXCEPT !.fired = @ \cup {<<o, type>>},
              !.vetoed = IF defaultPrevented THEN @ \cup {<<o, type>>} ELSE @]

\* The oldest pending afterNextRender callback of _openedChanged(), of
\* overlay o: the focus is trapped if focusTrap is set, vaadin-overlay-open
\* is dispatched.
afterNextRender(s) ==
    LET o == Head(s.afterRenderQueue)
        s1 == [s EXCEPT !.afterRenderQueue = Tail(@)]
        s2 == IF s1.focusTrap[o] THEN trapFocus(s1, o) ELSE s1
    IN  dispatchEvent(s2, o, "vaadin-overlay-open", FALSE)

\* Mutant: the overlay closes although vaadin-overlay-close was cancelled.
closeAnyway(s, o, response) ==
    LET s1 == dispatchEvent(s, o, "vaadin-overlay-close", response = "preventClose")
    IN  setOpened(s1, o, FALSE, response = "animate")

\* close(sourceEvent)
close(s, o, response) ==
    LET s1 == dispatchEvent(s, o, "vaadin-overlay-close", response = "preventClose")
    IN  IF response # "preventClose"
        THEN setOpened(s1, o, FALSE, response = "animate")
        ELSE s1

\* The dialog of a confirm dialog has no-close-on-outside-click set: it cancels
\* the outside-click notification of its overlay.
noCloseOnOutsideClick(s, o) == s.host[o] = ConfirmDialog

\* ConfirmDialog.__cancel(): the opened property of the confirm dialog is
\* bound to that of its overlay.
cancel(s, o, shouldAnimate) ==
    setOpened([s EXCEPT !.cancels = @ + 1], o, FALSE, shouldAnimate)

\* Mutant: the confirm dialog cancels whether or not the notification was
\* cancelled.
escPressedAlways(s, o, defaultPrevented, shouldAnimate) ==
    cancel(s, o, shouldAnimate)

\* ConfirmDialog._escPressed(event), the listener of the confirm dialog for
\* vaadin-overlay-escape-press on its overlay
escPressed(s, o, defaultPrevented, shouldAnimate) ==
    IF ~defaultPrevented THEN cancel(s, o, shouldAnimate) ELSE s

\* The listeners of the host for vaadin-overlay-escape-press on overlay o.
escapePressListeners(s, o, response) ==
    IF s.host[o] = ConfirmDialog
    THEN escPressed(s, o, response = "preventDefault", response = "animate")
    ELSE s

\* Mutant: a suppressed click leaves the inside flags as they are.
outsideClickListenerKeepsFlags(s, o, target, response) ==
    IF target = o \/ s.mouseDownInside[o] \/ s.mouseUpInside[o]
    THEN s
    ELSE IF ~isLast(s, o) THEN s
    ELSE LET defaultPrevented == response = "preventDefault" \/ noCloseOnOutsideClick(s, o)
             s1 == dispatchEvent(s, o, "vaadin-overlay-outside-click", defaultPrevented)
         IN  IF s1.opened[o] /\ ~defaultPrevented
             THEN close(s1, o, response)
             ELSE s1

\* _outsideClickListener(event); target is the overlay whose part the event
\* path includes, or Outside
outsideClickListener(s, o, target, response) ==
    IF target = o \/ s.mouseDownInside[o] \/ s.mouseUpInside[o]
    THEN [s EXCEPT !.mouseDownInside[o] = FALSE, !.mouseUpInside[o] = FALSE]
    ELSE IF ~isLast(s, o) THEN s
    ELSE LET defaultPrevented == response = "preventDefault" \/ noCloseOnOutsideClick(s, o)
             s1 == dispatchEvent(s, o, "vaadin-overlay-outside-click", defaultPrevented)
         IN  IF s1.opened[o] /\ ~defaultPrevented
             THEN close(s1, o, response)
             ELSE s1

\* Mutant: the event path is checked for every overlay, modeless or not.
keydownListenerNeedsFocus(s, o, key, target, response) ==
    IF ~isLast(s, o) THEN s
    ELSE IF target # o THEN s
    ELSE IF key = "Escape"
    THEN LET s1 == escapePressListeners(
                       dispatchEvent(s, o, "vaadin-overlay-escape-press",
                                     response = "preventDefault"), o, response)
         IN  IF s1.opened[o] /\ response # "preventDefault"
             THEN close(s1, o, response)
             ELSE s1
    ELSE s

\* Mutant: the event path is not checked for a modeless overlay.
keydownListenerAnyPath(s, o, key, target, response) ==
    IF ~isLast(s, o) THEN s
    ELSE IF key = "Escape"
    THEN LET s1 == escapePressListeners(
                       dispatchEvent(s, o, "vaadin-overlay-escape-press",
                                     response = "preventDefault"), o, response)
         IN  IF s1.opened[o] /\ response # "preventDefault"
             THEN close(s1, o, response)
             ELSE s1
    ELSE s

\* _keydownListener(event)
keydownListener(s, o, key, target, response) ==
    IF ~isLast(s, o) THEN s
    ELSE IF s.modeless[o] /\ target # o THEN s
    ELSE IF key = "Escape"
    THEN LET s1 == escapePressListeners(
                       dispatchEvent(s, o, "vaadin-overlay-escape-press",
                                     response = "preventDefault"), o, response)
         IN  IF s1.opened[o] /\ response # "preventDefault"
             THEN close(s1, o, response)
             ELSE s1
    ELSE s

\* A click event on the document: the capture listeners registered when the
\* dispatch starts run in order of registration, one removed meanwhile is skipped.
RECURSIVE dispatchClick(_, _, _, _)
dispatchClick(s, listeners, target, responses) ==
    IF Len(listeners) = 0 THEN s
    ELSE LET o == Head(listeners)
             s1 == IF o \in Range(s.clickListeners)
                   THEN outsideClickListener(s, o, target, responses[o])
                   ELSE s
         IN  dispatchClick(s1, Tail(listeners), target, responses)

\* A keydown event on the document, dispatched like the click.
RECURSIVE dispatchKeydown(_, _, _, _, _)
dispatchKeydown(s, listeners, key, target, responses) ==
    IF Len(listeners) = 0 THEN s
    ELSE LET o == Head(listeners)
             s1 == IF o \in Range(s.keydownListeners)
                   THEN keydownListener(s, o, key, target, responses[o])
                   ELSE s
         IN  dispatchKeydown(s1, Tail(listeners), key, target, responses)

\* A mousedown event on the document: _mouseDownListener(event) of every
\* overlay that listens.
mouseDown(s, target) ==
    [s EXCEPT !.mouseDownInside =
        [o \in Overlays |-> IF o \in Range(s.clickListeners) THEN target = o ELSE @[o]]]

\* A mouseup event on the document: _mouseUpListener(event) of every overlay
\* that listens.
mouseUp(s, target) ==
    [s EXCEPT !.mouseUpInside =
        [o \in Overlays |-> IF o \in Range(s.clickListeners) THEN target = o ELSE @[o]]]

\* document click with the given target and listener responses
click(s, target, responses) ==
    dispatchClick(s, s.clickListeners, target, responses)

\* document keydown with the given key, target and listener responses
keydown(s, key, target, responses) ==
    dispatchKeydown(s, s.keydownListeners, key, target, responses)

\* element.focus(): body is not focusable, and neither is an element inside
\* an overlay that is not displayed (not a child of body).
focus(s, node) ==
    IF node = Body \/ (node \in Overlays /\ node \notin Range(s.bodyChildren))
    THEN s
    ELSE [s EXCEPT !.activeElement = node]

\* The oldest pending callback of setTimeout(() => restoreFocusNode.focus()).
timeout(s) == [focus(s, Head(s.timers)) EXCEPT !.timers = Tail(@)]

\* The __zIndex of an overlay that is not a child of body is never read:
\* _attachOverlay() assigns it again before the overlay is back in
\* __attachedInstances.  The __restoreFocusNode of an overlay that is not
\* opened is never read either: _openedChanged() assigns it again before
\* _animatedClosing() reads it, and only with restoreFocusOnClose.  The
\* afterNextRender callback of an overlay without focusTrap only dispatches
\* vaadin-overlay-open, which changes nothing.  The model forgets the three.
Forget(s) ==
    [s EXCEPT !.zIndex = [o \in Overlays |->
                            IF o \in Range(s.bodyChildren) THEN @[o] ELSE 0],
              !.afterRenderQueue = SelectSeq(@, LAMBDA o : s.focusTrap[o]),
              !.storedFocusNode = [o \in Overlays |->
                            IF s.opened[o] /\ s.restoreFocusOnClose[o]
                            THEN @[o] ELSE Undefined]]

\* The next state is s.
Becomes(s0) ==
    LET s == Forget(s0)
    IN  /\ \A o \in Overlays : s.zIndex[o] <= MaxZIndex
        /\ Len(s.timers) <= MaxTimers
        /\ Len(s.afterRenderQueue) <= MaxRenders
        /\ opened' = s.opened
        /\ modeless' = s.modeless
        /\ bodyChildren' = s.bodyChildren
        /\ opening' = s.opening
        /\ closing' = s.closing
        /\ openingHandler' = s.openingHandler
        /\ closingHandler' = s.closingHandler
        /\ placeholder' = s.placeholder
        /\ zIndex' = s.zIndex
        /\ partPointerEvents' = s.partPointerEvents
        /\ bodyPointerEvents' = s.bodyPointerEvents
        /\ previousDocumentPointerEvents' = s.previousDocumentPointerEvents
        /\ keydownListeners' = s.keydownListeners
        /\ clickListeners' = s.clickListeners
        /\ mouseDownInside' = s.mouseDownInside
        /\ mouseUpInside' = s.mouseUpInside
        /\ activeElement' = s.activeElement
        /\ restoreFocusOnClose' = s.restoreFocusOnClose
        /\ restoreFocusNode' = s.restoreFocusNode
        /\ storedFocusNode' = s.storedFocusNode
        /\ timers' = s.timers
        /\ orphans' = s.orphans
        /\ host' = s.host
        /\ focusTrap' = s.focusTrap
        /\ trapNode' = s.trapNode
        /\ afterRenderQueue' = s.afterRenderQueue
        /\ UNCHANGED <<scriptVars, slotVars>>

\* The targets of a click that the listeners tell apart: a click listener
\* only asks whether the event path includes the part of its own overlay.
ClickTargets == Range(clickListeners) \cup {Outside}

\* The targets of a key press that the listeners tell apart: only the
\* keydown listener of a modeless overlay looks at the event path.
KeydownTargets == {o \in Range(keydownListeners) : modeless[o]} \cup {Outside}

\* The listeners of the host respond alike to the notifications of every overlay.
ResponsesOf(response) == [o \in Overlays |-> response]

\* The six arrays of cherryPick.js, empty.
NoEntries ==
    [arrPR |-> <<>>, arrSHA |-> <<>>, arrURL |-> <<>>, arrBranch |-> <<>>,
     arrTitle |-> <<>>, arrUser |-> <<>>]

\* The local repository before the script runs.
CleanRepository == [head |-> <<"master">>, branches |-> {}, picking |-> FALSE]

-----------------------------------------------------------------------------
(***************************************************************************)
(* component-base/src/slot-controller.js: a controller that provides the   *)
(* content of one slot of its host and follows the changes of the slot.    *)
(***************************************************************************)

\* The node document.createElement(tagName) returns for the controller.
DefaultNode == "default"

\* The nodes the application puts into the slot.
CustomNodes == {"custom1", "custom2"}

\* Largest number of calls of the initializer with one node the model follows.
MaxCalls == 2

\* The controller and the slot as one record.
Slot ==
    [multiple |-> multiple, tagName |-> tagName, observe |-> observe,
     childNodes |-> childNodes, node |-> thisNode, nodes |-> nodes,
     defaultNode |-> defaultNode, initialized |-> initialized,
     slotObserver |-> slotObserver, observedNodes |-> observedNodes,
     initializerCalls |-> initializerCalls]

\* getSlotChildren()
getSlotChildren(s) == s.childNodes

\* initNode(node): the initializer is called with the node it is given, also
\* when that is undefined.
initNode(s, n) == [s EXCEPT !.initializerCalls[n] = @ + 1]

\* Mutant: the default node is initialized like a custom node.
initAddedNodeAlsoDefault(s, n) == initNode(s, n)

\* initAddedNode(node)
initAddedNode(s, n) == IF n # s.defaultNode THEN initNode(s, n) ELSE s

\* newNodes.forEach((node) => this.initAddedNode(node))
RECURSIVE initAddedNodes(_, _)
initAddedNodes(s, added) ==
    IF added = <<>> THEN s
    ELSE initAddedNodes(initAddedNode(s, Head(added)), Tail(added))

\* attachDefaultNode(): its result is this.defaultNode of the state it returns.
attachDefaultNode(s) ==
    LET s1 == IF s.defaultNode = Undefined /\ s.tagName # Undefined
              THEN [s EXCEPT !.node = DefaultNode, !.defaultNode = DefaultNode]
              ELSE s
    IN  IF s1.defaultNode # Undefined
        THEN [s1 EXCEPT !.childNodes = Append(Without(@, s1.defaultNode), s1.defaultNode)]
        ELSE s1

\* initSingle()
initSingle(s) ==
    IF getSlotChildren(s) = <<>>
    THEN LET s1 == attachDefaultNode(s)
         IN  initNode(s1, s1.defaultNode)
    ELSE LET child == Head(getSlotChildren(s))
         IN  initAddedNode([s EXCEPT !.node = child], child)

\* initMultiple()
initMultiple(s) ==
    LET children == getSlotChildren(s)
    IN  IF Len(children) = 0
        THEN LET s1 == attachDefaultNode(s)
             IN  initNode([s1 EXCEPT !.nodes = <<s1.defaultNode>>], s1.defaultNode)
        ELSE initAddedNodes([s EXCEPT !.nodes = children], children)

\* observeSlot(): the observer is created; it has reported nothing yet.
observeSlot(s) == [s EXCEPT !.slotObserver = TRUE, !.observedNodes = <<>>]

\* hostConnected()
hostConnected(s) ==
    IF ~s.initialized
    THEN LET s1 == IF s.multiple THEN initMultiple(s) ELSE initSingle(s)
             s2 == IF s1.observe THEN observeSlot(s1) ELSE s1
         IN  [s2 EXCEPT !.initialized = TRUE]
    ELSE s

\* The callback of the FlattenedNodesObserver of observeSlot(); teardownNode()
\* of the removed nodes does nothing in this class.
slotObserverCallback(s, addedNodes, removedNodes) ==
    LET current == IF s.multiple THEN s.nodes ELSE <<s.node>>
        newNodes == SelectSeq(addedNodes, LAMBDA n : n \notin Range(current))
    IN  IF Len(newNodes) > 0
        THEN LET s1 == [s EXCEPT !.childNodes =
                           SelectSeq(@, LAMBDA n : n \notin Range(current))]
             IN  IF s.multiple
                 THEN initAddedNodes([s1 EXCEPT !.nodes = newNodes], newNodes)
                 ELSE initAddedNode([s1 EXCEPT !.node = newNodes[1]], newNodes[1])
        ELSE s

\* The observer delivers the changes of the slot since its last report: the
\* nodes that are in the slot now and were not, and the ones that were and
\* are not any more.
flush(s) ==
    LET addedNodes == SelectSeq(s.childNodes, LAMBDA n : n \notin Range(s.observedNodes))
        removedNodes == SelectSeq(s.observedNodes, LAMBDA n : n \notin Range(s.childNodes))
    IN  slotObserverCallback([s EXCEPT !.observedNodes = s.childNodes],
                             addedNodes, removedNodes)

\* The controller after its constructor, for a host with the given children
\* in the slot.
SlotConstructor(m, t, ob, children) ==
    /\ multiple = m
    /\ tagName = t
    /\ observe = ob
    /\ childNodes = children
    /\ thisNode = Undefined
    /\ nodes = <<>>
    /\ defaultNode = Undefined
    /\ initialized = FALSE
    /\ slotObserver = FALSE
    /\ observedNodes = <<>>
    /\ initializerCalls = [n \in {DefaultNode, Undefined} \cup CustomNodes |-> 0]

\* The page has no slot controller in use.
NoSlotController == SlotConstructor(FALSE, Undefined, TRUE, <<>>)

\* The controller and the slot change to s; a step that would call the
\* initializer more often than the model follows is left out.
SlotBecomes(s) ==
    /\ \A n \in DOMAIN s.initializerCalls : s.initializerCalls[n] <= MaxCalls
    /\ multiple' = s.multiple
    /\ tagName' = s.tagName
    /\ observe' = s.observe
    /\ childNodes' = s.childNodes
    /\ thisNode' = s.node
    /\ nodes' = s.nodes
    /\ defaultNode' = s.defaultNode
    /\ initialized' = s.initialized
    /\ slotObserver' = s.slotObserver
    /\ observedNodes' = s.observedNodes
    /\ initializerCalls' = s.initializerCalls
    /\ UNCHANGED <<pageVars, scriptVars>>

\* The cherry-pick script has not been started.
NotStarted ==
    /\ pc = "not started"
    /\ closedPulls = <<>>
    /\ commits = <<>>
    /\ arrays = NoEntries
    /\ index = 0
    /\ git = CleanRepository
    /\ log = <<>>

\* No overlay has been opened yet and nothing has the focus; the host has
\* set modeless, restoreFocusOnClose and restoreFocusNode of the overlays.
Constructed(m, r, n, h) ==
    /\ modeless = m
    /\ restoreFocusOnClose = r
    /\ restoreFocusNode = n
    /\ opened = [o \in Overlays |-> FALSE]
    /\ bodyChildren = <<>>
    /\ opening = [o \in Overlays |-> FALSE]
    /\ closing = [o \in Overlays |-> FALSE]
    /\ openingHandler = [o \in Overlays |-> FALSE]
    /\ closingHandler = [o \in Overlays |-> FALSE]
    /\ placeholder = [o \in Overlays |-> Undefined]
    /\ zIndex = [o \in Overlays |-> 0]
    /\ partPointerEvents = [o \in Overlays |-> ""]
    /\ bodyPointerEvents = PagePointerEvents
    /\ previousDocumentPointerEvents = [o \in Overlays |-> Undefined]
    /\ keydownListeners = <<>>
    /\ clickListeners = <<>>
    /\ mouseDownInside = [o \in Overlays |-> FALSE]
    /\ mouseUpInside = [o \in Overlays |-> FALSE]
    /\ activeElement = Body
    /\ storedFocusNode = [o \in Overlays |-> Undefined]
    /\ timers = <<>>
    /\ orphans = [o \in Overlays |-> 0]
    /\ host = h
    /\ trapNode = [o \in Overlays |-> FALSE]
    /\ afterRenderQueue = <<>>

\* focusTrap has its default, false.
NoFocusTrap == focusTrap = [o \in Overlays |-> FALSE]

\* The overlays are alike but for their properties, so the configurations of
\* modeless are taken up to renaming of the overlays.
ModelessConfigs ==
    {m \in [Overlays -> BOOLEAN] : (m["a"] => m["b"]) /\ (m["b"] => m["c"])}

\* The overlays with the default of the focus properties: restoreFocusOnClose
\* is false, restoreFocusNode is not set.
Init ==
    \E m \in ModelessConfigs :
        /\ Constructed(m, [o \in Overlays |-> FALSE], [o \in Overlays |-> Undefined],
                       [o \in Overlays |-> None])
        /\ NoFocusTrap
        /\ NotStarted
        /\ NoSlotController

\* overlay.opened = true
Open(o) ==
    /\ ~opened[o]
    /\ \E shouldAnimate \in BOOLEAN :
         Becomes(setOpened(State, o, TRUE, shouldAnimate))

\* overlay.close()
Close(o) ==
    /\ opened[o]
    /\ \E response \in Responses \ {"preventDefault"} :
         Becomes(close(State, o, response))

\* The animationend event of the overlay's own animation.
AnimationEnd(o) ==
    /\ openingHandler[o] \/ closingHandler[o]
    /\ Becomes(flushAnimation(flushAnimation(State, o, "opening"), o, "closing"))

\* overlay.bringToFront(), on an overlay that is a child of body
BringToFront(o) ==
    /\ o \in Range(bodyChildren)
    /\ Becomes(bringToFront(State, o))

\* overlay.modeless = !overlay.modeless
SetModeless(o) ==
    Becomes(modelessChanged([State EXCEPT !.modeless[o] = ~@], o))

\* A click somewhere in the document.
Click ==
    /\ clickListeners # <<>>
    /\ \E target \in ClickTargets, response \in Responses :
         Becomes(click(State, target, ResponsesOf(response)))

\* The mouse button goes down somewhere in the document.
MouseDown ==
    /\ clickListeners # <<>>
    /\ \E target \in ClickTargets : Becomes(mouseDown(State, target))

\* The mouse button goes up somewhere in the document.
MouseUp ==
    /\ clickListeners # <<>>
    /\ \E target \in ClickTargets : Becomes(mouseUp(State, target))

\* A key press somewhere in the document; only Escape makes a listener act.
KeyDown ==
    /\ keydownListeners # <<>>
    /\ \E key \in Keys :
         \E target \in IF key = "Escape" THEN KeydownTargets ELSE {Outside},
            response \in IF key = "Escape" THEN Responses ELSE {"finish"} :
             Becomes(keydown(State, key, target, ResponsesOf(response)))

\* The user moves the focus to an element of the page or inside a displayed
\* overlay, or takes it away from every element (body becomes active).
Focus(e) ==
    /\ e # activeElement
    /\ e \in Overlays => e \in Range(bodyChildren)
    /\ Becomes([State EXCEPT !.activeElement = e])

\* A pending setTimeout callback runs.
Timeout ==
    /\ timers # <<>>
    /\ Becomes(timeout(State))

Next ==
    \/ \E o \in Overlays : Open(o)
    \/ \E o \in Overlays : Close(o)
    \/ \E o \in Overlays : AnimationEnd(o)
    \/ \E o \in Overlays : BringToFront(o)
    \/ Click
    \/ KeyDown

Spec == Init /\ [][Next]_vars

\* The same with the modeless property changing while the overlays live.
NextModeless == Next \/ \E o \in Overlays : SetModeless(o)

SpecModeless == Init /\ [][NextModeless]_vars

\* The overlays that the page of the focus scenarios, and the page of the
\* mouse scenarios, opens.
PageOverlays == {"a", "b"}

\* restoreFocusNode of the overlays: set on none, or on the overlay that
\* restores the focus.
FocusConfigs ==
    {n \in [Overlays -> {Undefined} \cup PageElements] :
        n["b"] = Undefined /\ n["c"] = Undefined}

\* The page of the focus scenarios: overlay a has restoreFocusOnClose set.
InitFocus ==
    \E m \in {x \in ModelessConfigs : x["c"]}, n \in FocusConfigs :
        /\ Constructed(m, [o \in Overlays |-> o = "a"], n, [o \in Overlays |-> None])
        /\ NoFocusTrap
        /\ NotStarted
        /\ NoSlotController

NextFocus ==
    \/ \E o \in PageOverlays : Open(o)
    \/ \E o \in PageOverlays : Close(o)
    \/ \E o \in PageOverlays : AnimationEnd(o)
    \/ \E o \in PageOverlays : BringToFront(o)
    \/ Click
    \/ KeyDown
    \/ \E e \in Elements : Focus(e)
    \/ Timeout

SpecFocus == InitFocus /\ [][NextFocus]_vars

\* The page with a confirm dialog: overlay a is the overlay of the dialog.
InitConfirm ==
    \E m \in {x \in ModelessConfigs : ~x["a"]} :
        /\ Constructed(m, [o \in Overlays |-> FALSE], [o \in Overlays |-> Undefined],
                       [o \in Overlays |-> IF o = "a" THEN ConfirmDialog ELSE None])
        /\ NoFocusTrap
        /\ NotStarted
        /\ NoSlotController

SpecConfirm == InitConfirm /\ [][Next]_vars

\* The page of the mouse scenarios: the mouse button goes down and up, inside
\* or outside the overlays, before or without a click.
NextMouse ==
    \/ \E o \in PageOverlays : Open(o)
    \/ \E o \in PageOverlays : Close(o)
    \/ \E o \in PageOverlays : AnimationEnd(o)
    \/ \E o \in PageOverlays : BringToFront(o)
    \/ Click
    \/ KeyDown
    \/ MouseDown
    \/ MouseUp

SpecMouse == Init /\ [][NextMouse]_vars

\* A pending afterNextRender callback runs.
Render ==
    /\ afterRenderQueue # <<>>
    /\ Becomes(afterNextRender(State))

\* The page of the focus trap scenarios: the overlays of the page have
\* focusTrap set.
InitRender ==
    \E m \in ModelessConfigs :
        /\ Constructed(m, [o \in Overlays |-> FALSE], [o \in Overlays |-> Undefined],
                       [o \in Overlays |-> None])
        /\ focusTrap = [o \in Overlays |-> o \in PageOverlays]
        /\ NotStarted
        /\ NoSlotController

NextRender ==
    \/ \E o \in PageOverlays : Open(o)
    \/ \E o \in PageOverlays : Close(o)
    \/ \E o \in PageOverlays : AnimationEnd(o)
    \/ Click
    \/ KeyDown
    \/ Render

SpecRender == InitRender /\ [][NextRender]_vars

\* The page of the modal-state scenarios: overlays are opened and closed,
\* their exit animations end, and their modeless property is toggled at any
\* time.
NextToggle ==
    \/ \E o \in Overlays : Open(o)
    \/ \E o \in Overlays : Close(o)
    \/ \E o \in Overlays : AnimationEnd(o)
    \/ \E o \in Overlays : SetModeless(o)

SpecToggle == Init /\ [][NextToggle]_vars

\* The slot of the host before the controller is connected: empty, or with
\* custom nodes put there by the application.
InitialChildren ==
    {<<>>, <<"custom1">>, <<"custom1", "custom2">>}

\* The page with a host that has a slot controller.
InitSlot ==
    /\ Constructed([o \in Overlays |-> FALSE], [o \in Overlays |-> FALSE],
                   [o \in Overlays |-> Undefined], [o \in Overlays |-> None])
    /\ NoFocusTrap
    /\ NotStarted
    /\ \E m \in BOOLEAN, t \in {"label", Undefined}, children \in InitialChildren :
          SlotConstructor(m, t, TRUE, children)

\* The host is connected (the first time, or again).
HostConnected == SlotBecomes(hostConnected(Slot))

\* host.appendChild(n) with a custom node for the slot
AppendChild(n) ==
    /\ n \notin Range(childNodes)
    /\ SlotBecomes([Slot EXCEPT !.childNodes = Append(@, n)])

\* host.removeChild(n)
RemoveChild(n) ==
    /\ n \in Range(childNodes)
    /\ SlotBecomes([Slot EXCEPT !.childNodes = Without(@, n)])

\* The controller, or a class that extends it, adds the default node again.
AttachDefaultNode ==
    /\ initialized /\ defaultNode # Undefined
    /\ SlotBecomes(attachDefaultNode(Slot))

\* The observer of the slot reports the changes.
Flush ==
    /\ slotObserver /\ childNodes # observedNodes
    /\ SlotBecomes(flush(Slot))

NextSlot ==
    \/ HostConnected
    \/ \E n \in CustomNodes : AppendChild(n)
    \/ \E n \in CustomNodes \cup {DefaultNode} : RemoveChild(n)
    \/ AttachDefaultNode
    \/ Flush

SpecSlot == InitSlot /\ [][NextSlot]_vars

----------------------------------------------------------------------------
(***************************************************************************)
(* scripts/cherryPick.js: the merged pull requests with target/<branch>    *)
(* labels are queued, and each queued commit is cherry-picked to its       *)
(* branch.                                                                 *)
(***************************************************************************)

\* Largest number of closed pull requests the GitHub API returns.
MaxCommits == 2

\* Largest number of labels of a pull request.
MaxLabels == 2

\* RegExp.prototype.exec() without a match.
Null == "null"

\* The names of the labels: a name is a sequence of pieces of text, and the
\* texts the script searches for are never split over pieces.
LabelNames ==
    {<<"target/", "23.0">>, <<"target/", "22.0">>, <<"re", "target/", "23.0">>,
     <<"cherry-picked", "-", "23.0">>, <<"need to pick manually", " ", "22.0">>,
     <<"bug">>}

\* The labels of a pull request, in the order of the API: no label twice.
LabelLists ==
    {labels \in UNION {[1..n -> LabelNames] : n \in 0..MaxLabels} :
        \A j, k \in 1..Len(labels) : j # k => labels[j] # labels[k]}

\* The responses of GET /repos/vaadin/web-components/pulls?state=closed: pull
\* request k has number k; merged stands for merged_at !== null.
Responses200 ==
    {data \in UNION {[1..n -> [number : 1..MaxCommits, merged : BOOLEAN,
                               labels : LabelLists]] : n \in 0..MaxCommits} :
        \A k \in 1..Len(data) : data[k].number = k}

\* commit.merge_commit_sha, commit.url, commit.user.login and commit.title
sha(commit) == <<"sha", commit.number>>

url(commit) == <<"url", commit.number>>

login(commit) == <<"login", commit.number>>

title(commit) == <<"title", commit.number>>

\* The filter of getAllCommits()
getAllCommits(data) ==
    SelectSeq(data, LAMBDA da : Len(da.labels) > 0 /\ da.merged)

\* String.prototype.includes()
includes(name, text) == text \in Range(name)

\* /target\/(.*)/.exec(name): the text after the first 'target/', or Null
exec(name) ==
    IF ~includes(name, "target/") THEN Null
    ELSE LET first == CHOOSE k \in 1..Len(name) :
                          /\ name[k] = "target/"
                          /\ \A j \in 1..(k - 1) : name[j] # "target/"
         IN  SubSeq(name, first + 1, Len(name))

\* The six push() calls of filterCommits() for one label
push(arr, commit, branch) ==
    [arr EXCEPT !.arrPR = Append(@, commit.number),
                !.arrSHA = Append(@, sha(commit)),
                !.arrURL = Append(@, url(commit)),
                !.arrBranch = Append(@, branch),
                !.arrTitle = Append(@, <<title(commit), commit.number, branch>>),
                !.arrUser = Append(@, <<"@", login(commit)>>)]

\* commit.labels.forEach(...) of filterCommits()
RECURSIVE forEachLabel(_, _, _)
forEachLabel(arr, commit, labels) ==
    IF labels = <<>> THEN arr
    ELSE LET branch == exec(Head(labels))
         IN  forEachLabel(IF branch # Null THEN push(arr, commit, branch) ELSE arr,
                          commit, Tail(labels))

\* Mutant: a pull request that was picked already is queued again.
RECURSIVE filterCommitsAgain(_, _)
filterCommitsAgain(arr, list) ==
    IF list = <<>> THEN arr
    ELSE LET commit == Head(list)
             target == \E label \in Range(commit.labels) : includes(label, "target/")
         IN  filterCommitsAgain(IF target
                                THEN forEachLabel(arr, commit, commit.labels)
                                ELSE arr,
                                Tail(list))

\* filterCommits(commits)
RECURSIVE filterCommits(_, _)
filterCommits(arr, list) ==
    IF list = <<>> THEN arr
    ELSE LET commit == Head(list)
             target == \E label \in Range(commit.labels) : includes(label, "target/")
             picked == \E label \in Range(commit.labels) :
                           \/ includes(label, "cherry-picked")
                           \/ includes(label, "need to pick manually")
         IN  filterCommits(IF target /\ ~picked
                           THEN forEachLabel(arr, commit, commit.labels)
                           ELSE arr,
                           Tail(list))

\* One command of git in the local repository.  git does not delete the
\* branch that is checked out.
exec1(g, command) ==
    IF command[1] \in {"git checkout", "git checkout -b"}
    THEN [g EXCEPT !.head = command[2],
                   !.branches = IF command[1] = "git checkout -b"
                                THEN @ \cup {command[2]} ELSE @]
    ELSE IF command[1] = "git cherry-pick failed" THEN [g EXCEPT !.picking = TRUE]
    ELSE IF command[1] = "git cherry-pick --abort" THEN [g EXCEPT !.picking = FALSE]
    ELSE IF command[1] = "git branch -D" /\ g.head # command[2]
    THEN [g EXCEPT !.branches = @ \ {command[2]}]
    ELSE g

\* The repository after the commands of a log.
RECURSIVE execAll(_, _)
execAll(g, commands) ==
    IF commands = <<>> THEN g
    ELSE execAll(exec1(g, Head(commands)), Tail(commands))

\* `cherry-pick-${arrPR[i]}-to-${arrBranch[i]}-${Date.now()}`
branchName(arr, k) == <<"cherry-pick", arr.arrPR[k], "to", arr.arrBranch[k]>>

\* The iteration of cherryPickCommits() up to the cherry-pick
prepare(arr, k) ==
    <<<<"git checkout", <<"master">>>>, <<"git pull">>,
      <<"git checkout", arr.arrBranch[k]>>,
      <<"git reset --hard", arr.arrBranch[k]>>>>

\* The iteration of cherryPickCommits() when git cherry-pick fails
pickFailed(arr, k) ==
    <<<<"git checkout -b", branchName(arr, k)>>,
      <<"git cherry-pick failed", arr.arrSHA[k]>>,
      <<"labelCommit", arr.arrURL[k],
        <<"need to pick manually", " ">> \o arr.arrBranch[k]>>,
      <<"postComment", arr.arrURL[k], arr.arrUser[k], arr.arrBranch[k]>>,
      <<"git cherry-pick --abort">>,
      <<"git checkout", <<"master">>>>,
      <<"git branch -D", branchName(arr, k)>>>>

\* Mutant: the label is added before the commit is pushed.
pickedLabelFirst(arr, k) ==
    <<<<"git checkout -b", branchName(arr, k)>>,
      <<"git cherry-pick", arr.arrSHA[k]>>,
      <<"labelCommit", arr.arrURL[k], <<"cherry-picked", "-">> \o arr.arrBranch[k]>>,
      <<"git push", branchName(arr, k)>>,
      <<"createPR", arr.arrTitle[k], branchName(arr, k), arr.arrBranch[k]>>,
      <<"git checkout", <<"master">>>>,
      <<"git branch -D", branchName(arr, k)>>>>

\* The iteration of cherryPickCommits() when git cherry-pick succeeds
picked(arr, k) ==
    <<<<"git checkout -b", branchName(arr, k)>>,
      <<"git cherry-pick", arr.arrSHA[k]>>,
      <<"git push", branchName(arr, k)>>,
      <<"createPR", arr.arrTitle[k], branchName(arr, k), arr.arrBranch[k]>>,
      <<"git checkout", <<"master">>>>,
      <<"git branch -D", branchName(arr, k)>>,
      <<"labelCommit", arr.arrURL[k], <<"cherry-picked", "-">> \o arr.arrBranch[k]>>>>

\* The script starts: main() calls getAllCommits().
InitCherryPick ==
    /\ Constructed([o \in Overlays |-> FALSE], [o \in Overlays |-> FALSE],
                   [o \in Overlays |-> Undefined], [o \in Overlays |-> None])
    /\ NoFocusTrap
    /\ NoSlotController
    /\ pc = "getAllCommits"
    /\ closedPulls \in Responses200
    /\ commits = <<>>
    /\ arrays = NoEntries
    /\ index = 0
    /\ git = CleanRepository
    /\ log = <<>>

\* getAllCommits(): the request fails, no pull request is left, or some are.
GetAllCommits ==
    /\ pc = "getAllCommits"
    /\ \E ok \in BOOLEAN :
         LET data == getAllCommits(closedPulls)
         IN  /\ pc' = IF ~ok THEN "exit 1"
                      ELSE IF Len(data) = 0 THEN "exit 0" ELSE "filterCommits"
             /\ commits' = IF ok THEN data ELSE commits
    /\ UNCHANGED <<closedPulls, arrays, index, git, log, pageVars, slotVars>>

\* filterCommits(allCommits), then the loop of cherryPickCommits() starts
\* at the last entry.
FilterCommits ==
    /\ pc = "filterCommits"
    /\ arrays' = filterCommits(arrays, commits)
    /\ index' = Len(arrays'.arrPR)
    /\ pc' = "cherryPickCommits"
    /\ UNCHANGED <<closedPulls, commits, git, log, pageVars, slotVars>>

\* One iteration of the loop of cherryPickCommits(): the branch cannot be
\* created (the script exits), the cherry-pick fails, or it succeeds.
CherryPick ==
    /\ pc = "cherryPickCommits"
    /\ index >= 1
    /\ \E outcome \in {"Cannot Create Branch", "Cannot Pick the Commit", "picked"} :
         LET commands ==
                 prepare(arrays, index) \o
                 (IF outcome = "Cannot Create Branch"
                  THEN <<<<"git checkout -b failed", branchName(arrays, index)>>>>
                  ELSE IF outcome = "Cannot Pick the Commit"
                  THEN pickFailed(arrays, index)
                  ELSE picked(arrays, index))
         IN  /\ log' = commands
             /\ git' = execAll(git, commands)
             /\ pc' = IF outcome = "Cannot Create Branch" THEN "exit 1" ELSE pc
             /\ index' = IF outcome = "Cannot Create Branch" THEN index ELSE index - 1
    /\ UNCHANGED <<closedPulls, commits, arrays, pageVars, slotVars>>

\* The loop of cherryPickCommits() ends, and main() with it.
Done ==
    /\ pc = "cherryPickCommits"
    /\ index = 0
    /\ pc' = "done"
    /\ UNCHANGED <<closedPulls, commits, arrays, index, git, log, pageVars, slotVars>>

NextCherryPick == GetAllCommits \/ FilterCommits \/ CherryPick \/ Done

SpecCherryPick == InitCherryPick /\ [][NextCherryPick]_vars

----------------------------------------------------------------------------
\* Helpers of the properties below.

\* The overlays that are children of body.
Attached(s) == Range(s.bodyChildren)

\* The overlays of __attachedInstances: children of body, not closing.
InStack(s) == {o \in Attached(s) : ~s.closing[o]}

\* a comes before b in seq.
Precedes(seq, a, b) ==
    \E i, j \in 1..Len(seq) : i < j /\ seq[i] = a /\ seq[j] = b

\* The responses that cancel nothing.
Letting == {"animate", "finish"}

\* C1: the overlay that reports itself as topmost (_last) is exactly the one
\* with the greatest stacking order among the children of body that are not
\* closing; a closing overlay is never topmost.
C1_TopmostIsGreatest ==
    \A o \in Overlays :
        /\ isLast(State, o) <=>
              /\ o \in InStack(State)
              /\ \A p \in InStack(State) \ {o} : zIndex[p] < zIndex[o]
        /\ closing[o] => ~isLast(State, o)

\* C1 witness: an overlay is topmost while a closing overlay with a stacking
\* order at least as great is still a child of body, and while another
\* overlay is in the stack below it.
C1_Witness ==
    \E o, p, q \in Overlays :
        /\ isLast(State, o) /\ p \in Attached(State) /\ closing[p]
        /\ zIndex[p] >= zIndex[o]
        /\ q \in InStack(State) /\ q # o

\* The states right after overlay o was opened, or brought to front.
AfterOpen(o) ==
    IF opened[o] THEN {}
    ELSE {setOpened(State, o, TRUE, shouldAnimate) : shouldAnimate \in BOOLEAN}

AfterBringToFront(o) ==
    IF o \in Attached(State) THEN {bringToFront(State, o)} ELSE {}

\* C2 as stated: after an open or bringToFront() the stacking order of the
\* overlay is strictly greater than that of every other overlay attached to
\* the document, and it is the default value if no other overlay is attached.
C2_AboveEveryAttached ==
    \A o \in Overlays : \A s \in AfterOpen(o) \cup AfterBringToFront(o) :
        /\ \A p \in Attached(s) \ {o} : s.zIndex[o] > s.zIndex[p]
        /\ Attached(s) \ {o} = {} => s.zIndex[o] = DefaultZIndex

\* C2 amended: after an open or bringToFront() the stacking order of the
\* overlay is strictly greater than that of every other overlay that is a
\* child of body and not closing, and it is the default value if there is no
\* such overlay; a closing overlay may keep an equal or greater one.
C2_AboveEveryInStack ==
    \A o \in Overlays : \A s \in AfterOpen(o) \cup AfterBringToFront(o) :
        /\ \A p \in InStack(s) \ {o} : s.zIndex[o] > s.zIndex[p]
        /\ InStack(s) \ {o} = {} => s.zIndex[o] = DefaultZIndex

\* C2 witness: an overlay registered before another one is above it (it was
\* brought to front or re-opened), and an overlay is open next to a closing
\* one whose stacking order is not smaller.
C2_Witness ==
    /\ \E o, p \in Overlays :
          /\ opened[o] /\ opened[p] /\ Precedes(bodyChildren, p, o)
          /\ zIndex[o] > zIndex[p] /\ zIndex[p] > DefaultZIndex
    /\ \E o, p \in Overlays :
          opened[o] /\ closing[p] /\ p \in Attached(State) /\ zIndex[p] >= zIndex[o]

\* C3: if a non-modeless overlay is open, pointer events of body are 'none'.
C3_BodyDisabledWhileModal ==
    (\E o \in Overlays : opened[o] /\ ~modeless[o]) => bodyPointerEvents = "none"

\* C4: when a non-modeless overlay opens, body pointer-events become 'none',
\* the previous value being recorded if it was not 'none'; the part of every
\* other overlay of the stack gets pointer-events 'none', and the part of the
\* opened overlay is left interactive.
C4_EnterModalOnOpen ==
    \A o \in Overlays : ~modeless[o] =>
        \A s \in AfterOpen(o) :
            /\ s.bodyPointerEvents = "none"
            /\ bodyPointerEvents # "none" =>
                  s.previousDocumentPointerEvents[o] = bodyPointerEvents
            /\ \A p \in InStack(s) \ {o} : s.partPointerEvents[p] = "none"
            /\ s.partPointerEvents[o] # "none"
            /\ o \in InStack(s)

\* C4 witness: a non-modeless overlay is open above two others, whose parts
\* are disabled; it holds the previous value of body, which is 'none' now.
C4_Witness ==
    \E o \in Overlays :
        /\ opened[o] /\ ~modeless[o] /\ isLast(State, o)
        /\ previousDocumentPointerEvents[o] = "auto" /\ bodyPointerEvents = "none"
        /\ partPointerEvents[o] = ""
        /\ \A p \in Overlays \ {o} : opened[p] /\ partPointerEvents[p] = "none"

\* C5: for non-modeless overlays A and B, B opened while A is open, no other
\* overlay being attached: the part of A has pointer-events 'none' while B
\* is open; when B closes, the part of A is interactive again, A stays open
\* and attached, and body pointer-events stay 'none'.
C5_NestedModal ==
    \A A, B \in Overlays :
        ( /\ opened[A] /\ opened[B] /\ ~modeless[A] /\ ~modeless[B]
          /\ Precedes(keydownListeners, A, B)
          /\ Attached(State) = {A, B} )
        => /\ partPointerEvents[A] = "none"
           /\ \A response \in Letting :
                 LET s == close(State, B, response)
                 IN  /\ s.partPointerEvents[A] = ""
                     /\ s.opened[A] /\ A \in InStack(s)
                     /\ s.bodyPointerEvents = "none"

\* C6: when all overlays are modeless, body pointer-events are never 'none'
\* and no overlay part has pointer-events 'none'.
C6_ModelessNeverDisables ==
    (\A o \in Overlays : modeless[o]) =>
        /\ bodyPointerEvents # "none"
        /\ \A o \in Overlays : partPointerEvents[o] # "none"

\* C6 witness: two modeless overlays are open at once, a third one is closing.
C6_Witness ==
    /\ \A o \in Overlays : modeless[o]
    /\ \E o, p, q \in Overlays :
          o # p /\ opened[o] /\ opened[p] /\ closing[q] /\ q \in Attached(State)

\* Every target an event can have: inside the part of an overlay, or outside.
AllTargets == Overlays \cup {Outside}

\* The program state of s: s without the notifications it collected.
Quiet(s) == [s EXCEPT !.fired = {}, !.vetoed = {}, !.cancels = 0]

\* C7: a click outside the part of a non-modeless open overlay A, while
\* another overlay B is topmost, fires no outside-click notification on A and
\* leaves A open.
C7_LowerIgnoresOutsideClick ==
    \A A, B \in Overlays :
        (A # B /\ opened[A] /\ ~modeless[A] /\ isLast(State, B)) =>
            \A target \in AllTargets \ {A}, response \in Responses :
                LET s == click(State, target, ResponsesOf(response))
                IN  /\ <<A, "vaadin-overlay-outside-click">> \notin s.fired
                    /\ s.opened[A]

\* C8 as stated: Escape closes the topmost non-modeless open overlay, wherever
\* the focus is, unless a listener cancels the escape-press notification.
C8_EscapeClosesUnlessEscapeCancelled ==
    \A o \in Overlays :
        (opened[o] /\ ~modeless[o] /\ isLast(State, o)) =>
            \A target \in AllTargets, response \in Responses \ {"preventDefault"} :
                ~keydown(State, "Escape", target, ResponsesOf(response)).opened[o]

\* C8 amended: Escape closes the topmost non-modeless open overlay, wherever
\* the focus is, unless a listener cancels the escape-press notification or
\* the vaadin-overlay-close notification that close() dispatches.
C8_EscapeClosesUnlessCancelled ==
    \A o \in Overlays :
        (opened[o] /\ ~modeless[o] /\ isLast(State, o)) =>
            \A target \in AllTargets, response \in Letting :
                LET s == keydown(State, "Escape", target, ResponsesOf(response))
                IN  /\ ~s.opened[o]
                    /\ <<o, "vaadin-overlay-escape-press">> \in s.fired

\* C8 witness: a non-modeless overlay is topmost above another open one, and
\* Escape pressed with the focus outside closes it and only it.
C8_Witness ==
    \E o, p \in Overlays :
        /\ o # p /\ opened[o] /\ ~modeless[o] /\ isLast(State, o) /\ opened[p]
        /\ LET s == keydown(State, "Escape", Outside, ResponsesOf("finish"))
           IN  ~s.opened[o] /\ s.opened[p] /\ o \notin Attached(s)

\* C9: an Escape key press whose path does not include the part of a
\* modeless open overlay fires no escape-press notification on it and does
\* not close it.
C9_ModelessEscapeNeedsFocus ==
    \A o \in Overlays :
        (opened[o] /\ modeless[o]) =>
            \A target \in AllTargets \ {o}, response \in Responses :
                LET s == keydown(State, "Escape", target, ResponsesOf(response))
                IN  /\ <<o, "vaadin-overlay-escape-press">> \notin s.fired
                    /\ s.opened[o]

\* C9 witness: a modeless overlay is open and topmost; Escape pressed inside
\* its part closes it, Escape pressed outside does nothing.
C9_Witness ==
    \E o \in Overlays :
        /\ opened[o] /\ modeless[o] /\ isLast(State, o)
        /\ ~keydown(State, "Escape", o, ResponsesOf("finish")).opened[o]
        /\ Quiet(keydown(State, "Escape", Outside, ResponsesOf("finish"))) = State

\* The states after one of the three cancelable notifications of overlay o
\* was dispatched by close(), by its click listener or by its keydown listener.
AfterDismissal(o) ==
    {close(State, o, response) : response \in Responses}
    \cup {outsideClickListener(State, o, target, response) :
            target \in AllTargets, response \in Responses}
    \cup {keydownListener(State, o, "Escape", target, response) :
            target \in AllTargets, response \in Responses}

\* C10: when a listener cancels the outside-click, the escape-press or the
\* vaadin-overlay-close notification of an open overlay, nothing is torn
\* down: the overlay stays opened and attached with its stacking order and
\* its listeners, and pointer-events of body and of every part are unchanged.
C10_CancelPreventsClose ==
    /\ \A o \in Overlays : opened[o] =>
          \A s \in AfterDismissal(o) : s.vetoed # {} => Quiet(s) = State
    /\ \A target \in AllTargets, response \in {"preventDefault", "preventClose"} :
          /\ Quiet(click(State, target, ResponsesOf(response))) = State
          /\ Quiet(keydown(State, "Escape", target, ResponsesOf(response))) = State

\* C10 witness: a non-modeless overlay is topmost above an open one whose
\* part is disabled, and each of the three notifications is cancelled on it.
C10_Witness ==
    \E o, p \in Overlays :
        /\ opened[o] /\ ~modeless[o] /\ isLast(State, o)
        /\ opened[p] /\ partPointerEvents[p] = "none"
        /\ click(State, Outside, ResponsesOf("preventDefault")).vetoed
              = {<<o, "vaadin-overlay-outside-click">>}
        /\ keydown(State, "Escape", Outside, ResponsesOf("preventDefault")).vetoed
              = {<<o, "vaadin-overlay-escape-press">>}
        /\ click(State, Outside, ResponsesOf("preventClose")).vetoed
              = {<<o, "vaadin-overlay-close">>}

\* The node _animatedClosing() of overlay o restores the focus to.
RestoreTarget(o) ==
    IF restoreFocusNode[o] # Undefined THEN restoreFocusNode[o]
    ELSE storedFocusNode[o]

\* C11: with restoreFocusOnClose, an overlay remembers the element that is
\* active when it opens; when it closes, a focus() call on that element (or
\* on the configured restoreFocusNode) is scheduled if and only if the active
\* element at that time is body or inside the overlay, and otherwise the
\* focus stays where it is; the scheduled call gives the element the focus.
C11_FocusRestoredIfBodyOrInside ==
    /\ \A o \in Overlays : restoreFocusOnClose[o] =>
          \A s \in AfterOpen(o) : s.storedFocusNode[o] = activeElement
    /\ \A o \in Overlays :
          (opened[o] /\ restoreFocusOnClose[o] /\ RestoreTarget(o) # Undefined) =>
              \A response \in Letting :
                  LET s == close(State, o, response)
                  IN  IF activeElement \in {Body, o}
                      THEN s.timers = Append(timers, RestoreTarget(o))
                      ELSE s.timers = timers /\ s.activeElement = activeElement
    /\ (timers # <<>> /\ Head(timers) \in PageElements) =>
          timeout(State).activeElement = Head(timers)

\* C11 witness: element X had the focus when the overlay opened, the focus
\* is inside the overlay now and closing it schedules the focus of X; the
\* other overlay is open too.
C11_Witness ==
    \E o, p \in Overlays :
        /\ o # p /\ opened[o] /\ opened[p] /\ restoreFocusOnClose[o]
        /\ storedFocusNode[o] = "X" /\ activeElement = o
        /\ close(State, o, "finish").timers = <<"X">>
        /\ close(State, o, "finish").activeElement = Body

\* A non-modeless overlay other than o is open in s.
OtherModalOpen(s, o) == \E p \in Overlays \ {o} : s.opened[p] /\ ~s.modeless[p]

\* Overlay o is open, non-modeless and topmost, and the last mousedown and
\* mouseup it saw were outside its part.
ClickCloses(o) ==
    /\ opened[o] /\ ~modeless[o] /\ isLast(State, o)
    /\ ~mouseDownInside[o] /\ ~mouseUpInside[o]

\* The states after overlay o was opened and then, possibly, another open
\* overlay was closed by the page.
AfterOpenAndClose(o) ==
    AfterOpen(o) \cup
    {close(s, p, response) : s \in AfterOpen(o),
                            p \in {q \in Overlays \ {o} : opened[q]},
                            response \in Letting}

\* C12 as stated: a click outside the part of the topmost non-modeless
\* overlay closes it, and if no other non-modeless overlay is open then,
\* pointer-events of body have the value they had before that overlay opened.
C12_BodyAsBeforeOpened ==
    \A o \in Overlays : \A s \in AfterOpenAndClose(o) :
        (s.opened[o] /\ ~s.modeless[o] /\ isLast(s, o)
            /\ ~s.mouseDownInside[o] /\ ~s.mouseUpInside[o]) =>
           \A target \in AllTargets \ {o}, response \in Letting :
               LET s1 == click(s, target, ResponsesOf(response))
               IN  /\ ~s1.opened[o]
                   /\ ~OtherModalOpen(s1, o) =>
                         s1.bodyPointerEvents = bodyPointerEvents

\* C12 amended: a click outside the part of the topmost non-modeless overlay,
\* the last mousedown and mouseup having been outside too, closes it; if no
\* other non-modeless overlay is open then, pointer-events of body have the
\* value they had before the first non-modeless overlay opened.  While no
\* non-modeless overlay is open, body has that value.
C12_BodyAsBeforeModal ==
    /\ \A o \in Overlays : ClickCloses(o) =>
          \A target \in AllTargets \ {o}, response \in Letting :
              LET s1 == click(State, target, ResponsesOf(response))
              IN  /\ ~s1.opened[o]
                  /\ <<o, "vaadin-overlay-outside-click">> \in s1.fired
                  /\ ~OtherModalOpen(s1, o) =>
                        s1.bodyPointerEvents = PagePointerEvents
    /\ (\A o \in Overlays : opened[o] => modeless[o]) =>
          bodyPointerEvents = PagePointerEvents

\* C12 witness: a non-modeless overlay is topmost, pointer-events of body are
\* 'none' and a click outside closes the overlay and restores them; another
\* overlay has seen a mousedown inside its part, and a click after a
\* mousedown inside the topmost overlay does not close it.
C12_Witness ==
    \E o, p \in Overlays :
        /\ ClickCloses(o) /\ bodyPointerEvents = "none" /\ mouseDownInside[p]
        /\ LET s1 == click(State, Outside, ResponsesOf("finish"))
           IN  ~s1.opened[o] /\ s1.bodyPointerEvents = PagePointerEvents
        /\ click(mouseDown(State, o), Outside, ResponsesOf("finish")).opened[o]

\* C13: bringToFront() called twice in a row on an attached overlay leaves,
\* after the second call, the stacking order the overlay had after the first
\* one, and neither call changes the stacking order of another overlay.
C13_BringToFrontIdempotent ==
    \A o \in Attached(State) :
        LET s1 == bringToFront(State, o)
            s2 == bringToFront(s1, o)
        IN  /\ s2.zIndex[o] = s1.zIndex[o]
            /\ \A p \in Overlays \ {o} :
                  s1.zIndex[p] = zIndex[p] /\ s2.zIndex[p] = zIndex[p]
            /\ s2 = s1

\* C13 witness: an overlay is below two others of the stack, the first
\* bringToFront() raises it above both and the second one changes nothing.
C13_Witness ==
    \E o \in InStack(State) :
        /\ \A p \in Overlays \ {o} : p \in InStack(State) /\ zIndex[p] > zIndex[o]
        /\ LET s1 == bringToFront(State, o)
           IN  /\ \A p \in Overlays \ {o} : s1.zIndex[o] > zIndex[p]
               /\ bringToFront(s1, o) = s1

\* C14: on the overlay of a confirm dialog, an escape-press notification
\* that is not cancelled makes the dialog dispatch exactly one 'cancel' event
\* and set opened to false, and the overlay does not run close() for that key
\* press; if the notification is cancelled, no 'cancel' event is dispatched
\* and the dialog stays open.
C14_EscapeCancelsOnce ==
    \A o \in Overlays :
        (host[o] = ConfirmDialog /\ opened[o] /\ isLast(State, o)) =>
            \A target \in AllTargets, response \in Responses :
                LET s == keydown(State, "Escape", target, ResponsesOf(response))
                IN  /\ <<o, "vaadin-overlay-escape-press">> \in s.fired
                    /\ IF response = "preventDefault"
                       THEN s.cancels = 0 /\ s.opened[o] /\ Quiet(s) = State
                       ELSE /\ s.cancels = 1 /\ ~s.opened[o]
                            /\ <<o, "vaadin-overlay-close">> \notin s.fired

\* C14 witness: the confirm dialog is open above another open overlay; Escape
\* closes it with one 'cancel' event, and leaves it open if the notification
\* is cancelled.
C14_Witness ==
    \E o, p \in Overlays :
        /\ host[o] = ConfirmDialog /\ opened[o] /\ isLast(State, o)
        /\ o # p /\ opened[p]
        /\ LET s == keydown(State, "Escape", Outside, ResponsesOf("finish"))
           IN  s.cancels = 1 /\ ~s.opened[o] /\ s.opened[p]
        /\ keydown(State, "Escape", Outside, ResponsesOf("preventDefault")).cancels = 0

\* A label of the form target/<branch>: 'target/', then the branch.
IsTargetLabel(label) == \E k \in 1..Len(label) : label[k] = "target/"

\* A label that marks a pull request as picked, or to be picked manually.
IsPickedLabel(label) ==
    \E k \in 1..Len(label) : label[k] \in {"cherry-picked", "need to pick manually"}

\* The pull requests of the response that the script has to pick.
ToPick ==
    {k \in 1..Len(closedPulls) :
        /\ closedPulls[k].merged
        /\ \E label \in Range(closedPulls[k].labels) : IsTargetLabel(label)
        /\ \A label \in Range(closedPulls[k].labels) : ~IsPickedLabel(label)}

\* The target labels of the pull requests to pick: <<k, j>> is label j of
\* pull request k.
TargetLabels ==
    {e \in (1..MaxCommits) \X (1..MaxLabels) :
        /\ e[1] \in ToPick
        /\ e[2] <= Len(closedPulls[e[1]].labels)
        /\ IsTargetLabel(closedPulls[e[1]].labels[e[2]])}

\* The place of target label e in the order of the response.
PlaceOf(e) ==
    1 + Cardinality({f \in TargetLabels :
                        f[1] < e[1] \/ (f[1] = e[1] /\ f[2] < e[2])})

Places(name) == {n \in 1..Len(log) : log[n][1] = name}

\* The entry the last iteration of cherryPickCommits() worked on.
LastEntry == index + 1

Level(s, p) ==
    CHOOSE n \in 1..Len(attachedInstances(s)) : attachedInstances(s)[n] = p

\* The overlays of the stack of s that are to be interactive: the topmost
\* non-modeless one and the modeless ones above it, or all of them if none
\* is non-modeless.
Interactive(s) ==
    {p \in InStack(s) :
        \A q \in InStack(s) : (~s.modeless[q] /\ q # p) => Level(s, q) < Level(s, p)}

\* C17: after a non-modeless overlay starts closing, topmost or not, the
\* overlays of the remaining stack with pointer events enabled are exactly
\* the topmost non-modeless one and the modeless ones above it (all of them
\* if none is non-modeless); the ones below stay disabled.  The stack is the
\* one the page has after any overlay of it was brought to front.
C17_TopmostModalInteractive ==
    \A o \in Overlays : (opened[o] /\ ~modeless[o]) =>
        \A front \in Range(bodyChildren), response \in Letting :
            LET s == close(bringToFront(State, front), o, response)
            IN  \A p \in InStack(s) :
                    s.partPointerEvents[p] # "none" <=> p \in Interactive(s)

\* The number of times overlay o is a child of body in s.
Times(s, o) == Len(SelectSeq(s.bodyChildren, LAMBDA el : el = o))

\* The animationend event of overlay o arrives in s.
animationEnd(s, o) == flushAnimation(flushAnimation(s, o, "opening"), o, "closing")

\* C18: an overlay re-opened while its exit animation is in progress first
\* completes the exit (back at its placeholder, placeholder removed, closing
\* cleared, handler removed) and is attached again afterwards: it is a child
\* of body once, with one placeholder, at its place in the page, it is not
\* closing, and the animationend event that arrives later does not finish
\* the exit a second time.
C18_ReopenFlushesExit ==
    \A o \in Overlays : (closing[o] /\ closingHandler[o]) =>
        /\ LET s == flushAnimation(State, o, "closing")
           IN  /\ o \notin Attached(s) /\ s.placeholder[o] = Undefined
               /\ ~s.closing[o] /\ ~s.closingHandler[o]
        /\ \A s \in AfterOpen(o) :
              /\ Times(s, o) = 1
              /\ s.placeholder[o] = "home" /\ s.orphans[o] = 0
              /\ ~s.closing[o] /\ ~s.closingHandler[o]
              /\ LET s1 == animationEnd(s, o)
                 IN  /\ Times(s1, o) = 1 /\ s1.opened[o]
                     /\ s1.placeholder[o] = "home" /\ s1.orphans[o] = 0

\* C18 witness: the exit animation of an overlay is in progress, its
\* animation-end handler pending, while another overlay is open above it;
\* re-opening it puts it on top of that one.
C18_Witness ==
    \E o, p \in Overlays :
        /\ ~opened[o] /\ closing[o] /\ closingHandler[o] /\ o \in Attached(State)
        /\ opened[p] /\ zIndex[p] > zIndex[o]
        /\ \A s \in AfterOpen(o) : isLast(s, o) /\ p \in InStack(s)

\* What a listener of the host may do when it gets a notification of an
\* overlay: set the opened property of that overlay or of another one.
Reactions ==
    [on : Overlays \X NotificationTypes, target : Overlays,
     value : BOOLEAN, shouldAnimate : BOOLEAN]

\* The listeners of notification type of overlay o run: the one that r
\* describes assigns the opened property before dispatchEvent returns.
react(s, o, type, r) ==
    IF r.on = <<o, type>>
    THEN setOpened(s, r.target, r.value, r.shouldAnimate)
    ELSE s

\* _animatedClosing() with the listeners r of vaadin-overlay-closing, which is
\* dispatched after setAttribute('closing') and before the animation is
\* enqueued or the closing finished.
animatedClosingReentrant(s, o, shouldAnimate, r) ==
    LET s1 == IF s.opening[o] THEN flushAnimation(s, o, "opening") ELSE s
        s2 == restoreFocus(exitModalState(s1, o), o)
        s3 == react([s2 EXCEPT !.closing[o] = TRUE], o, "vaadin-overlay-closing", r)
    IN  IF shouldAnimate THEN [s3 EXCEPT !.closingHandler[o] = TRUE]
        ELSE finishClosing(s3, o)

\* _openedChanged(opened, wasOpened) with the listeners r
openedChangedReentrant(s, o, shouldAnimate, r) ==
    IF s.opened[o]
    THEN openedChanged(s, o, shouldAnimate)
    ELSE LET s1 == animatedClosingReentrant(closingFocusTrap(s, o), o, shouldAnimate, r)
             s2 == [s1 EXCEPT !.keydownListeners = removeEventListener(@, o)]
         IN  IF ~s2.modeless[o] THEN removeGlobalListeners(s2, o) ELSE s2

\* this.opened = value with the listeners r: on a change the observer runs,
\* then the opened-changed notification of the property is dispatched.
setOpenedReentrant(s, o, value, shouldAnimate, r) ==
    IF s.opened[o] = value THEN s
    ELSE react(openedChangedReentrant([s EXCEPT !.opened[o] = value], o,
                                      shouldAnimate, r),
               o, "opened-changed", r)

\* close(sourceEvent) with the listeners r
closeReentrant(s, o, response, r) ==
    LET s1 == react(dispatchEvent(s, o, "vaadin-overlay-close", response = "preventClose"),
                    o, "vaadin-overlay-close", r)
    IN  IF response # "preventClose"
        THEN setOpenedReentrant(s1, o, FALSE, response = "animate", r)
        ELSE s1

\* What _outsideClickListener(event) and _keydownListener(event) of the
\* topmost overlay o do with an event they do not ignore, with the listeners
\* r: the dismissal notification is dispatched, then close() is called.
dismissReentrant(s, o, type, response, r) ==
    LET s1 == react(dispatchEvent(s, o, type, response = "preventDefault"), o, type, r)
    IN  IF s1.opened[o] /\ response # "preventDefault"
        THEN closeReentrant(s1, o, response, r)
        ELSE s1

\* The states after an operation on the overlays of s, with the listeners r:
\* opened is assigned, close() is called, the topmost overlay gets a click
\* outside or an Escape key press.
Operations(s, r) ==
    {setOpenedReentrant(s, o, value, shouldAnimate, r) :
        o \in Overlays, value \in BOOLEAN, shouldAnimate \in BOOLEAN}
    \cup {closeReentrant(s, o, response, r) :
            o \in {p \in Overlays : s.opened[p]}, response \in Responses}
    \cup {dismissReentrant(s, o, type, response, r) :
            o \in {p \in Overlays : s.opened[p] /\ isLast(s, p)},
            type \in {"vaadin-overlay-outside-click", "vaadin-overlay-escape-press"},
            response \in Responses}

\* The number of placeholder nodes of overlay o in the document.
Placeholders(s, o) ==
    (IF s.placeholder[o] # Undefined THEN 1 ELSE 0) + s.orphans[o]

\* The attached collection of s is consistent.
Consistent(s) ==
    \A o \in Overlays :
        /\ o \in Attached(s) <=> (s.opened[o] \/ s.closing[o])
        /\ Times(s, o) <= 1
        /\ Placeholders(s, o) = IF o \in Attached(s) THEN 1 ELSE 0

\* C19: when a listener of a notification dispatched during an open or a
\* close sets the opened property of the same or of another overlay, then,
\* once the outermost operation has returned, every overlay is a child of
\* body if and only if it is opened or closing, is there at most once, has
\* exactly one placeholder in the document while it is attached and none
\* after it was detached.
C19_ReentrantConsistent ==
    \A r \in Reactions : \A s \in Operations(State, r) : Consistent(s)

\* The overlays that are open in State and not in s any more.
Closed(s) == {o \in Overlays : opened[o] /\ ~s.opened[o]}

\* The overlays a dismissal notification was fired on in s.
Dismissed(s) ==
    {o \in Overlays : \E type \in {"vaadin-overlay-outside-click",
                                   "vaadin-overlay-escape-press"} : <<o, type>> \in s.fired}

\* C20: one click on the document, or one Escape key press, closes at most
\* one overlay, whatever the order in which the overlays were opened,
\* re-opened or brought to front: once an overlay has closed, the listeners
\* of the other overlays fire no dismissal notification and close nothing.
C20_OneEventClosesOne ==
    \A target \in AllTargets, response \in Responses :
        \A s \in {click(State, target, ResponsesOf(response)),
                  keydown(State, "Escape", target, ResponsesOf(response))} :
            /\ Cardinality(Closed(s)) <= 1
            /\ Closed(s) # {} => Dismissed(s) = Closed(s)

\* The phase of overlay o in s: "opening" and "closing" are the attributes of
\* the same names, "open" and "closed" the opened property without them.
Phase(s, o) ==
    IF s.closing[o] THEN "closing"
    ELSE IF s.opening[o] THEN "opening"
    ELSE IF s.opened[o] THEN "open"
    ELSE "closed"

\* The moves of an overlay one operation can make: along the cycle, or past
\* a phase that is flushed or finished before the operation returns.
Cycle ==
    {<<"closed", "opening">>, <<"opening", "open">>, <<"open", "closing">>,
     <<"closing", "closed">>,
     <<"closed", "open">>, <<"open", "closed">>, <<"opening", "closing">>,
     <<"opening", "closed">>, <<"closing", "opening">>, <<"closing", "open">>}

\* Overlay o is in one phase only in s.
OnePhase(s, o) ==
    /\ ~(s.opening[o] /\ s.closing[o])
    /\ s.opened[o] => ~s.closing[o]

\* The states after one operation on the overlays of s, no listener
\* assigning the opened property: opened is assigned, close() or
\* bringToFront() is called, an animation ends, the document gets a click
\* or an Escape key press.
PlainOperations(s) ==
    {setOpened(s, o, value, shouldAnimate) :
        o \in Overlays, value \in BOOLEAN, shouldAnimate \in BOOLEAN}
    \cup {close(s, o, response) :
            o \in {p \in Overlays : s.opened[p]}, response \in Responses}
    \cup {animationEnd(s, o) : o \in Overlays}
    \cup {bringToFront(s, o) : o \in Attached(s)}
    \cup {click(s, target, ResponsesOf(response)) :
            target \in AllTargets, response \in Responses}
    \cup {keydown(s, "Escape", target, ResponsesOf(response)) :
            target \in AllTargets, response \in Responses}

\* C21: an overlay moves along closed, opening, open, closing, closed only,
\* a phase being passed only when it is flushed or finished at once; it
\* never has the opening and the closing attribute at once, and it is never
\* closing while its opened property is true, in whatever state an
\* operation leaves it, with or without a listener of its notifications
\* assigning the opened property of an overlay.
C21_OnePhaseAtATime ==
    /\ \A o \in Overlays : OnePhase(State, o)
    /\ \A s \in PlainOperations(State) : \A o \in Overlays :
          /\ OnePhase(s, o)
          /\ Phase(s, o) # Phase(State, o) =>
                <<Phase(State, o), Phase(s, o)>> \in Cycle
    /\ \A r \in Reactions : \A s \in Operations(State, r) :
          \A o \in Overlays : OnePhase(s, o)

\* The same for the operations without a listener assigning opened only.
OnePhaseWithoutListeners ==
    /\ \A o \in Overlays : OnePhase(State, o)
    /\ \A s \in PlainOperations(State) : \A o \in Overlays :
          /\ OnePhase(s, o)
          /\ Phase(s, o) # Phase(State, o) =>
                <<Phase(State, o), Phase(s, o)>> \in Cycle

\* The number of times overlay o is in the list of listeners seq.
Registrations(seq, o) == Len(SelectSeq(seq, LAMBDA el : el = o))

\* The document listeners of overlay o in s are the ones of its state: click,
\* mousedown and mouseup while it is opened and not modeless, keydown while
\* it is opened, each once.
Listening(s, o) ==
    /\ Registrations(s.clickListeners, o) =
          IF s.opened[o] /\ ~s.modeless[o] THEN 1 ELSE 0
    /\ Registrations(s.keydownListeners, o) = IF s.opened[o] THEN 1 ELSE 0

\* overlay.modeless = !overlay.modeless
toggleModeless(s, o) == modelessChanged([s EXCEPT !.modeless[o] = ~@], o)

\* C22: an opened overlay that is not modeless has exactly one click listener
\* (with mousedown and mouseup) and one keydown listener on the document, an
\* opened modeless one the keydown listener only, a closed one none, after
\* every open, close and toggle of modeless, with or without a listener of
\* the notifications assigning the opened property of an overlay.
C22_ListenersFollowState ==
    /\ \A o \in Overlays : Listening(State, o)
    /\ \A p \in Overlays : \A o \in Overlays : Listening(toggleModeless(State, p), o)
    /\ \A r \in Reactions : \A s \in Operations(State, r) :
          \A o \in Overlays : Listening(s, o)

\* The same without the listeners of the notifications.
ListeningWithoutListeners ==
    /\ \A o \in Overlays : Listening(State, o)
    /\ \A p \in Overlays : \A o \in Overlays : Listening(toggleModeless(State, p), o)

\* C23: the focus trap of an overlay with focusTrap is active only while the
\* overlay is opened: no closed overlay holds an active trap, also when it
\* was closed before the afterNextRender callback of its open has run.
C23_TrapOnlyWhileOpened ==
    \A o \in Overlays : trapNode[o] => opened[o]

\* C28: vaadin-overlay-open is dispatched only on an overlay that is opened
\* and a child of body when it is dispatched, once for each time the overlay
\* was opened, and never after the overlay was closed again.
C28_OpenNotifiedWhileOpened ==
    afterRenderQueue # <<>> =>
        LET o == Head(afterRenderQueue)
            s == afterNextRender(State)
        IN  /\ <<o, "vaadin-overlay-open">> \in s.fired
            /\ opened[o] /\ o \in Attached(State)

\* A mouse gesture on the document: the button goes down on down, up on up,
\* and the click that follows has the given target.
gesture(s, down, up, target, response) ==
    click(mouseUp(mouseDown(s, down), up), target, ResponsesOf(response))

\* C24: the topmost non-modeless overlay takes a click for an outside click
\* only if the path of the click leaves out its part and neither the last
\* mousedown nor the last mouseup was inside its part; a click it suppresses
\* for one of these reasons resets both flags, and the next click with
\* mousedown and mouseup outside is taken for an outside click.
C24_OutsideClickAfterOutsideGesture ==
    \A o \in Overlays : (opened[o] /\ ~modeless[o] /\ isLast(State, o)) =>
        /\ \A target \in AllTargets, response \in Responses :
              <<o, "vaadin-overlay-outside-click">>
                    \in click(State, target, ResponsesOf(response)).fired
                => (target # o /\ ~mouseDownInside[o] /\ ~mouseUpInside[o])
        /\ \A down, up, target \in AllTargets, response \in Responses :
              LET s == gesture(State, down, up, target, response)
                  outside == down # o /\ up # o /\ target # o
              IN  /\ <<o, "vaadin-overlay-outside-click">> \in s.fired <=> outside
                  /\ ~outside =>
                        /\ ~s.mouseDownInside[o] /\ ~s.mouseUpInside[o]
                        /\ s.opened = opened /\ s.bodyChildren = bodyChildren
                        /\ <<o, "vaadin-overlay-outside-click">> \in
                              gesture(Quiet(s), Outside, Outside, Outside, response).fired

\* C24 witness: a drag that started inside the topmost non-modeless overlay
\* is pending (mousedown inside, seen by its listener), another overlay is
\* open below, and the click that ends the drag outside is suppressed.
C24_Witness ==
    \E o, p \in Overlays :
        /\ o # p /\ opened[o] /\ ~modeless[o] /\ isLast(State, o) /\ opened[p]
        /\ mouseDownInside[o] /\ ~mouseUpInside[o]
        /\ LET s == click(State, Outside, ResponsesOf("finish"))
           IN  s.opened[o] /\ s.fired = {} /\ ~s.mouseDownInside[o]

\* Overlay o is at its place in the page in s, as before it was opened: it
\* is not a child of body and no placeholder of it is in the document.
AtHome(s, o) == o \notin Attached(s) /\ Placeholders(s, o) = 0

\* Overlay o is attached in s: a child of body, once, with exactly one
\* placeholder, which marks its place in the page.
AwayFromHome(s, o) ==
    /\ Times(s, o) = 1
    /\ s.placeholder[o] = "home" /\ Placeholders(s, o) = 1

\* C25: an open followed by a completed close is a round trip on the
\* structure of the document: an overlay that is open or closing is a child
\* of body with exactly one placeholder at its place in the page; once the
\* close has completed (the exit animation has ended, or at once when there
\* is none) the overlay is back at its place, no child of body, and no
\* placeholder of it is left.
C25_OpenCloseRoundTrip ==
    \A o \in Overlays :
        /\ IF opened[o] \/ closing[o]
           THEN AwayFromHome(State, o) ELSE AtHome(State, o)
        /\ \A s \in AfterOpen(o) :
              /\ AwayFromHome(s, o)
              /\ AtHome(close(s, o, "finish"), o)
              /\ LET s1 == close(s, o, "animate")
                 IN  /\ s1.closing[o] /\ AwayFromHome(s1, o)
                     /\ AtHome(animationEnd(s1, o), o)
        /\ (closing[o] /\ closingHandler[o]) => AtHome(animationEnd(State, o), o)

\* C25 witness: an overlay is closing, its exit animation running, attached
\* between two open overlays; the end of the animation takes it out of body
\* and leaves the other two where they are.
C25_Witness ==
    \E o, p, q \in Overlays :
        /\ closing[o] /\ closingHandler[o] /\ ~opened[o]
        /\ opened[p] /\ opened[q] /\ p # q
        /\ zIndex[p] < zIndex[o] /\ zIndex[o] < zIndex[q]
        /\ LET s == animationEnd(State, o)
           IN  /\ o \notin Attached(s) /\ s.placeholder[o] = Undefined
               /\ Attached(s) = {p, q}

\* The overlays that hold a recorded value of pointer-events of body in s.
Holders(s) == {o \in Overlays : s.previousDocumentPointerEvents[o] # Undefined}

\* No overlay is open or closing in s.
AllClosed(s) == \A o \in Overlays : ~s.opened[o] /\ ~s.closing[o]

\* C26: whenever no overlay is open or closing, pointer-events of body have
\* the value they had before the first overlay opened, whatever the order of
\* the opens, the closes and the toggles of modeless; and at most one
\* overlay holds a recorded value of body at any time.
C26_BodyRestoredWhenAllClosed ==
    /\ AllClosed(State) => bodyPointerEvents = PagePointerEvents
    /\ Cardinality(Holders(State)) <= 1
    /\ \A o \in Overlays :
          LET s == toggleModeless(State, o)
          IN  /\ AllClosed(s) => s.bodyPointerEvents = PagePointerEvents
              /\ Cardinality(Holders(s)) <= 1

\* C26 witness: the last overlay that is open holds no recorded value (it
\* was made non-modeless, or opened, while body was disabled by another
\* one, which has closed since); closing it leaves no overlay open or
\* closing, and body has the value of the page.
C26_Witness ==
    \E o \in Overlays :
        /\ opened[o] /\ ~modeless[o] /\ Holders(State) = {}
        /\ \A p \in Overlays \ {o} : ~opened[p] /\ ~closing[p]
        /\ LET s == close(State, o, "finish")
           IN  AllClosed(s) /\ s.bodyPointerEvents = PagePointerEvents

\* C27: in every reachable state with an attached overlay that is not
\* closing, the topmost of them has pointer events enabled on its part:
\* after opens and closes in any order, after bringToFront() of a lower
\* overlay, and after a toggle of modeless of an open overlay.
C27_TopmostHasPointerEvents ==
    /\ \A o \in Overlays : isLast(State, o) => partPointerEvents[o] # "none"
    /\ \A p \in Overlays : opened[p] =>
          LET s == toggleModeless(State, p)
          IN  \A o \in Overlays : isLast(s, o) => s.partPointerEvents[o] # "none"

\* The user moves the focus to element e in s.
focused(s, e) == [s EXCEPT !.activeElement = e]

\* C29: a focus restoration decided at close runs in a later task, and that
\* task moves the focus to the restore target only if the active element is
\* still body or inside the closed overlay when it runs: if the focus was
\* moved to an unrelated element, or the overlay was opened again, between
\* the close and the task, the focus is left where it is.
C29_DeferredRestoreRechecks ==
    \A o \in Overlays :
        (opened[o] /\ restoreFocusOnClose[o] /\ RestoreTarget(o) # Undefined
                   /\ timers = <<>>) =>
            \A response \in Letting :
                LET s == close(State, o, response)
                IN  s.timers # <<>> =>
                      /\ s.activeElement = activeElement \/ s.activeElement = Body
                      /\ \A e \in Elements \ {Body, o} :
                            (e \in Overlays => e \in Attached(s)) =>
                                timeout(focused(s, e)).activeElement = e
                      /\ \A shouldAnimate \in BOOLEAN :
                            LET s1 == setOpened(s, o, TRUE, shouldAnimate)
                            IN  timeout(s1).activeElement = s1.activeElement

\* The nodes the controller manages in s.
Managed(s) == (IF s.multiple THEN Range(s.nodes) ELSE {s.node}) \ {Undefined}

\* What one call of the controller makes of the reached state: hostConnected()
\* (the first, or a later one), hostConnected() twice, the callback of
\* the slot observer, attachDefaultNode() for the default node made before.
ControllerSteps ==
    {hostConnected(Slot), hostConnected(hostConnected(Slot))}
    \cup (IF slotObserver THEN {flush(Slot)} ELSE {})
    \cup (IF initialized /\ defaultNode # Undefined
          THEN {attachDefaultNode(Slot), flush(attachDefaultNode(Slot))} ELSE {})

\* C30 as stated: the initializer is called exactly once for each node that
\* becomes the managed node of the controller, and for no other node.
C30_InitializerOncePerNode ==
    \A n \in CustomNodes \cup {DefaultNode} :
        /\ initializerCalls[n] <= 1
        /\ n \in Managed(Slot) => initializerCalls[n] = 1

\* C30, amended: the controller calls the slot initializer once each time a
\* node becomes its managed node: once for the default node, when it is
\* created, and once for a custom node whenever it becomes the managed node
\* (it is in the slot at the first hostConnected(), or is added later, also
\* a second time after another node had replaced it; the node managed
\* before is then taken out of the slot); a later hostConnected() and adding
\* the default node again call it for no node.  With no tagName and an
\* empty slot the first hostConnected() calls it once without a node.
C30_InitializerOncePerManagedNode ==
    /\ defaultNode # Undefined => initializerCalls[DefaultNode] = 1
    /\ \A n \in Managed(Slot) : initializerCalls[n] >= 1
    /\ \A s \in ControllerSteps : \A n \in CustomNodes \cup {DefaultNode} :
          /\ s.initializerCalls[n] - initializerCalls[n] =
                IF n = DefaultNode
                THEN IF defaultNode = Undefined /\ s.defaultNode = n THEN 1 ELSE 0
                ELSE IF n \in Managed(s) \ Managed(Slot) THEN 1 ELSE 0
          /\ (n \in Managed(Slot) \ Managed(s)) => n \notin Range(s.childNodes)
          /\ s.initializerCalls[Undefined] - initializerCalls[Undefined] =
                IF ~initialized /\ childNodes = <<>> /\ tagName = Undefined
                THEN 1 ELSE 0

\* C30 witness: the host is connected, the default node was made and
\* initialized once, a custom node has taken its place and was initialized
\* once, and the default node is in the slot again, not reported yet: the
\* report makes the default node the managed node and calls the initializer
\* for no node.
C30_Witness ==
    /\ initialized /\ ~multiple /\ defaultNode = DefaultNode
    /\ thisNode \in CustomNodes /\ initializerCalls[thisNode] = 1
    /\ DefaultNode \in Range(childNodes) /\ DefaultNode \notin Range(observedNodes)
    /\ flush(Slot).node = DefaultNode
    /\ flush(Slot).initializerCalls = initializerCalls

====
